---- MODULE Spec2Model ----
(***************************************************************************)
(* WinCup Mold Analysis System (src/wincup.py).                            *)
(*                                                                         *)
(* Two threads exist in the running program:                               *)
(*   - the Tk control thread (root.mainloop), which runs every button      *)
(*     command (navigation, calibrate_start, the sensitivity scale);       *)
(*   - the gpiozero callback thread, which runs DifferenceFrame.run_dif:   *)
(*     init_inprogress assigns run_dif to switch.when_pressed and nothing  *)
(*     in the program hands the call over to the Tk thread.  The callback  *)
(*     thread runs one handler at a time.                                  *)
(* run_dif is therefore modelled statement by statement (pc), interleaved  *)
(* with the control thread's handlers.  A Tk call made by run_dif          *)
(* (pb_dif.start, sens.get, label_img.configure, root.update) is served by *)
(* the control thread and so waits until that thread dispatches events.    *)
(*                                                                         *)
(* Pictures are abstracted to one luminance value per site; a site is a    *)
(* fixed rectangular patch of the picture, the patches are disjoint and    *)
(* not adjacent, and everything outside them is the same in all pictures.  *)
(***************************************************************************)
EXTENDS Integers, Sequences, FiniteSets, TLC

\* ------------------------------------------------------------- bounds
MaxPending == 1     \* trigger edges waiting for the callback thread

\* --------------------------------------------------- program constants
MinSize    == 35    \* run_dif: w > 35 and h > 35
MaxVal     == 255   \* run_dif: cv2.threshold(diff, sens, 255, THRESH_BINARY)
SensInit   == 25    \* DifferenceFrame.__init__: tk.IntVar(value=25)
SensTo     == 50    \* init_main: tk.Scale(from_=0, to=50)
NumTotal   == 10    \* CalibrationFrame.__init__: tk.IntVar(value=10)
\* the radio buttons of CalibrationFrame.init_main: 10, 15, 20
NumChoices == {NumTotal, 15, 20}

\* ------------------------------------------------------ picture model
Sites  == {1}
\* the rectangle (x, y, w, h) of each site
SiteRect(s) == <<10, 10, 40, 40>>
Grays  == {0, 40}
Images == [Sites -> Grays]
NoImage == [s \in Sites |-> 0]
\* no file average.jpg; cv2.imread returns None
Missing == [s \in Sites |-> -1]
\* a file average.jpg that this program's calibration did not write: its
\* size is not the 400 x 250 of a capture
OtherSize == [s \in Sites |-> -2]
SensValues == {0, SensInit, SensTo}

VARIABLES
  frame,        \* MainFrame: the packed top-level frame
  dif_frame,    \* DifferenceFrame: "main" or "inprogress"
  cal_frame,    \* CalibrationFrame: "main" or "inprogress"
  cal_buttons,  \* CalibrationFrame: Back/Finish gridded in frame_inprogress
  sens,         \* DifferenceFrame.sens
  switch,       \* self.switch    [id, open, on]; id 0: not constructed yet
  led_r,        \* self.led_r     [id, open, on]
  led_g,        \* self.led_g
  led_flash,    \* self.led_flash
  pending,      \* trigger edges not yet delivered to the callback thread
  pc,           \* run_dif: the statement the callback thread is at
  base_gray,    \* run_dif local: the baseline picture, or Missing
  image,        \* run_dif local: captured frame
  obj,          \* run_dif local: number of kept regions
  rects,        \* run_dif: rectangles drawn on image
  label_img,    \* what self.label_img shows: [set, image, rects]
  pb_dif,       \* self.pb_dif is running (started and not stopped)
  camera,       \* holder of the PiCamera: "free", "dif", "cal"
  average,      \* file average.jpg: the baseline picture, or Missing
  cal_pc,       \* calibrate_start: statement the control thread is at
  cal_i,        \* calibrate_start local: loop index i
  num_current,  \* CalibrationFrame.num_current
  num_total,    \* CalibrationFrame.num_total
  cal_n,        \* calibrate_start local: len(fns), the end of the loop
  files,        \* sample files on disk: the i with img<i>.jpg present
  acc,          \* per-site sum of the sample pictures of this calibration
  d             \* SpecDetect: the detection steps of run_dif on free inputs

app_vars == <<frame, dif_frame, cal_frame, cal_buttons, sens, switch,
              led_r, led_g, led_flash, pending, pc, base_gray, image, obj,
              rects, label_img, pb_dif, camera, average, cal_pc,
              cal_i, num_current, num_total, cal_n, files, acc>>
vars == <<app_vars, d>>

\* variables only the control thread's handlers write
ctl_vars == <<frame, dif_frame, cal_frame, cal_buttons, sens, switch,
              cal_pc, cal_i, num_current, num_total, cal_n, files, acc,
              average>>

\* --------------------------------------------------- gpiozero devices
NoDevice == [id |-> 0, open |-> FALSE, on |-> FALSE]
NewDevice == [id |-> 1, open |-> TRUE, on |-> FALSE]
\* close(): the pin is released and goes back to input, the line is off
Close(dev) == [dev EXCEPT !.open = FALSE, !.on = FALSE]
SetOn(dev, v) == [dev EXCEPT !.on = v]

\* ------------------------------------------------ detection pipeline
\* cv2.absdiff on 8-bit pictures
absdiff(a, b) == IF a >= b THEN a - b ELSE b - a

\* cv2.threshold(.., thresh, 255, THRESH_BINARY) on one pixel
threshold_lax(v, t) == IF v >= t THEN MaxVal ELSE 0
threshold_inv(v, t) == IF v > t THEN 0 ELSE MaxVal
threshold(v, t) == IF v > t THEN MaxVal ELSE 0

\* thresh: the binary picture of run_dif
Thresh(base, img, t) ==
  [s \in Sites |-> threshold(absdiff(base[s], img[s]), t)]

\* cv2.findContours(thresh, RETR_EXTERNAL, CHAIN_APPROX_SIMPLE): one outer
\* contour per foreground patch
findContours(th) == {s \in Sites : th[s] # 0}

\* cv2.boundingRect(c)
boundingRect(c) == SiteRect(c)

\* the size filter of run_dif
Keep_lax(w, h) == w >= MinSize /\ h >= MinSize
Keep(w, h) == w > MinSize /\ h > MinSize

\* the rectangles run_dif draws, one per kept contour
KeptRects(conts) ==
  {boundingRect(c) : c \in {k \in conts : Keep(boundingRect(k)[3], boundingRect(k)[4])}}

\* numpy.round of n / k for n >= 0, k > 0: to nearest, halves to even
Round(n, k) ==
  LET q == n \div k
      r == n % k
  IN  IF 2 * r < k THEN q
      ELSE IF 2 * r > k THEN q + 1
      ELSE IF q % 2 = 0 THEN q ELSE q + 1

\* ------------------------------------------------------ thread state
\* the control thread is in the Tk event loop: mainloop, or a root.update()
\* inside calibrate_start
CtlReady == cal_pc \in {"idle", "update", "update_avg"}

dif_locals == <<base_gray, image, obj, rects>>
leds == <<led_r, led_g, led_flash>>
cal_state == <<cal_frame, cal_buttons, cal_pc, cal_i, num_current,
              num_total, cal_n, files, acc, average>>
nav == <<frame, dif_frame, sens, switch>>
widgets == <<label_img, pb_dif>>

ResetLocals ==
  /\ base_gray' = Missing
  /\ image' = NoImage
  /\ obj' = 0
  /\ rects' = {}

\* an exception leaves run_dif: both with-blocks exit, the camera closes
Raise ==
  /\ pc' = "idle"
  /\ camera' = IF camera = "dif" THEN "free" ELSE camera
  /\ ResetLocals

DetectIdle == [stage |-> "none"]

\* a new ttk.Label: no image yet
NoLabel == [set |-> FALSE, image |-> NoImage, rects |-> {}]

Init ==
  /\ frame = "splash"
  /\ dif_frame = "main"
  /\ cal_frame = "main"
  /\ cal_buttons = FALSE
  /\ sens = SensInit
  /\ switch = NoDevice
  /\ led_r = NoDevice
  /\ led_g = NoDevice
  /\ led_flash = NoDevice
  /\ pending = 0
  /\ pc = "idle"
  /\ base_gray = Missing
  /\ image = NoImage
  /\ obj = 0
  /\ rects = {}
  /\ label_img = NoLabel /\ pb_dif = FALSE
  /\ camera = "free"
  /\ average \in {Missing, OtherSize, [s \in Sites |-> 0]}
  /\ cal_pc = "idle"
  /\ cal_i = 0
  /\ num_current = 0
  /\ num_total = NumTotal
  /\ cal_n = 0
  /\ files = {}
  /\ acc = [s \in Sites |-> 0]
  /\ d = DetectIdle

\* ------------------------------------------- MainFrame: navigation
splash2calibration ==
  /\ CtlReady /\ frame = "splash"
  /\ frame' = "calibration"
  /\ UNCHANGED <<dif_frame, sens, switch, leds, pending, pc, dif_locals,
                 widgets, camera, cal_state, d>>

splash2difference ==
  /\ CtlReady /\ frame = "splash"
  /\ frame' = "difference"
  /\ UNCHANGED <<dif_frame, sens, switch, leds, pending, pc, dif_locals,
                 widgets, camera, cal_state, d>>

\* DifferenceFrame.difference2splash (Home on frame_main)
difference2splash ==
  /\ CtlReady /\ frame = "difference" /\ dif_frame = "main"
  /\ frame' = "splash"
  /\ UNCHANGED <<dif_frame, sens, switch, leds, pending, pc, dif_locals,
                 widgets, camera, cal_state, d>>

\* CalibrationFrame.inprogress2main (Back)
cal_inprogress2main ==
  /\ CtlReady /\ frame = "calibration"
  /\ cal_frame = "inprogress" /\ cal_buttons
  /\ cal_frame' = "main"
  /\ UNCHANGED <<nav, leds, pending, pc, dif_locals, widgets,
                 camera, cal_buttons, cal_pc, cal_i, num_current,
                 num_total, cal_n, files, acc, average, d>>

\* CalibrationFrame.calibration2splash (Home on frame_main, Finish on
\* frame_inprogress)
calibration2splash ==
  /\ CtlReady /\ frame = "calibration"
  /\ cal_frame = "main" \/ cal_buttons
  /\ cal_frame' = "main"
  /\ frame' = "splash"
  /\ UNCHANGED <<dif_frame, sens, switch, leds, pending, pc, dif_locals,
                 widgets, camera, cal_buttons, cal_pc,
                 cal_i, num_current, num_total, cal_n, files, acc,
                 average, d>>

\* ------------------------------------- DifferenceFrame: control thread
\* the sensitivity scale on frame_main
set_sens ==
  /\ CtlReady /\ frame = "difference" /\ dif_frame = "main"
  /\ \E v \in SensValues \ {sens} : sens' = v
  /\ UNCHANGED <<frame, dif_frame, switch, leds, pending, pc, dif_locals,
                 widgets, camera, cal_state, d>>

\* init_inprogress: a new Button, three new LEDs, a new label_img and a new
\* pb_dif
init_inprogress ==
  /\ switch' = NewDevice
  /\ led_r' = NewDevice
  /\ led_g' = NewDevice
  /\ led_flash' = NewDevice
  /\ label_img' = NoLabel
  /\ pb_dif' = FALSE

\* DifferenceFrame.main2inprogress (Begin)
main2inprogress ==
  /\ CtlReady /\ frame = "difference" /\ dif_frame = "main"
  /\ init_inprogress
  /\ dif_frame' = "inprogress"
  /\ UNCHANGED <<frame, sens, pending, pc, dif_locals,
                 camera, cal_state, d>>

\* DifferenceFrame.inprogress2main (Back): closes the LEDs and the switch;
\* a closed Button delivers no further event
inprogress2main_keepflash ==
  /\ CtlReady /\ frame = "difference" /\ dif_frame = "inprogress"
  /\ dif_frame' = "main"
  /\ led_r' = Close(led_r)
  /\ led_g' = Close(led_g)
  /\ led_flash' = led_flash
  /\ switch' = Close(switch)
  /\ pending' = 0
  /\ UNCHANGED <<frame, sens, pc, dif_locals, widgets,
                 camera, cal_state, d>>
inprogress2main ==
  /\ CtlReady /\ frame = "difference" /\ dif_frame = "inprogress"
  /\ dif_frame' = "main"
  /\ led_r' = Close(led_r)
  /\ led_g' = Close(led_g)
  /\ led_flash' = Close(led_flash)
  /\ switch' = Close(switch)
  /\ pending' = 0
  /\ UNCHANGED <<frame, sens, pc, dif_locals, widgets,
                 camera, cal_state, d>>

\* --------------------------------------------- the hardware trigger
\* A press of the switch.  run_dif has no guard of its own: a press while
\* the callback thread is busy is dropped or kept for later, as the pin
\* library decides.
Press ==
  /\ switch.open
  /\ pending < MaxPending
  /\ pending' \in (IF pc = "idle" THEN {pending + 1} ELSE {pending, pending + 1})
  /\ UNCHANGED <<nav, leds, pc, dif_locals, widgets, camera, cal_state, d>>

\* switch.when_pressed = self.run_dif: the callback thread calls run_dif
when_pressed ==
  /\ pending > 0 /\ pc = "idle"
  /\ pending' = pending - 1
  /\ pc' = "start"
  /\ UNCHANGED <<nav, leds, dif_locals, widgets, camera,
                 cal_state, d>>

\* ----------------------------------- run_dif, on the callback thread
\* pb_dif.start(); base_gray = cv2.imread('average.jpg', 0)
rd_start ==
  /\ pc = "start" /\ CtlReady
  /\ pb_dif' = TRUE
  /\ base_gray' = average
  /\ pc' = "camera"
  /\ UNCHANGED <<nav, leds, pending, image, obj, rects, label_img,
                 camera, cal_state, d>>

\* with PiCamera() as camera: the camera is exclusive
rd_camera ==
  /\ pc = "camera"
  /\ IF camera = "free"
       THEN /\ camera' = "dif"
            /\ pc' = "flash_on"
            /\ UNCHANGED <<dif_locals>>
       ELSE Raise
  /\ UNCHANGED <<nav, leds, pending, widgets, cal_state, d>>

\* self.led_flash.on()
rd_flash_on ==
  /\ pc = "flash_on"
  /\ IF led_flash.open
       THEN /\ led_flash' = SetOn(led_flash, TRUE)
            /\ pc' = "capture"
            /\ UNCHANGED <<dif_locals, camera>>
       ELSE /\ Raise
            /\ UNCHANGED led_flash
  /\ UNCHANGED <<nav, led_r, led_g, pending, widgets, cal_state, d>>

\* camera.capture(rawCapture, ...): a frame, or an error
rd_capture_leak ==
  /\ pc = "capture"
  /\ \/ /\ \E img \in Images : image' = img
        /\ pc' = "flash_off"
        /\ UNCHANGED <<base_gray, obj, rects, camera>>
     \/ /\ pc' = "idle" /\ ResetLocals
        /\ UNCHANGED camera
  /\ UNCHANGED <<nav, leds, pending, widgets, cal_state, d>>
rd_capture_clears ==
  /\ pc = "capture"
  /\ \/ /\ \E img \in Images : image' = img
        /\ pc' = "flash_off"
        /\ UNCHANGED <<base_gray, obj, rects, camera, label_img>>
     \/ /\ Raise
        /\ label_img' = NoLabel
  /\ UNCHANGED <<nav, leds, pending, pb_dif, cal_state, d>>
rd_capture ==
  /\ pc = "capture"
  /\ \/ /\ \E img \in Images : image' = img
        /\ pc' = "flash_off"
        /\ UNCHANGED <<base_gray, obj, rects, camera>>
     \/ Raise
  /\ UNCHANGED <<nav, leds, pending, widgets, cal_state, d>>

\* self.led_flash.off()
rd_flash_off ==
  /\ pc = "flash_off"
  /\ IF led_flash.open
       THEN /\ led_flash' = SetOn(led_flash, FALSE)
            /\ pc' = "detect"
            /\ UNCHANGED <<dif_locals, camera>>
       ELSE /\ Raise
            /\ UNCHANGED led_flash
  /\ UNCHANGED <<nav, led_r, led_g, pending, widgets, cal_state, d>>

\* cv2.absdiff(base_gray, image_gray) raises: imread returned None, or the
\* two pictures differ in size
absdiff_raises_size(b) == b = OtherSize
absdiff_raises(b) == b \in {Missing, OtherSize}

\* cvtColor, absdiff, threshold(diff, self.sens.get(), ...), findContours and
\* the loop over the contours
rd_detect_resize ==
  /\ pc = "detect" /\ CtlReady
  /\ IF base_gray = Missing
       THEN Raise
       ELSE /\ rects' = KeptRects(findContours(Thresh(
                          IF base_gray = OtherSize THEN NoImage ELSE base_gray,
                          image, sens)))
            /\ obj' = Cardinality(rects')
            /\ pc' = "led_1"
            /\ UNCHANGED <<base_gray, image, camera>>
  /\ UNCHANGED <<nav, leds, pending, widgets, cal_state, d>>
rd_detect_carry ==
  /\ pc = "detect" /\ CtlReady
  /\ IF absdiff_raises(base_gray)
       THEN Raise
       ELSE /\ rects' = label_img.rects \cup
                          KeptRects(findContours(Thresh(base_gray, image, sens)))
            /\ obj' = Cardinality(rects')
            /\ pc' = "led_1"
            /\ UNCHANGED <<base_gray, image, camera>>
  /\ UNCHANGED <<nav, leds, pending, widgets, cal_state, d>>
rd_detect_sensinit ==
  /\ pc = "detect" /\ CtlReady
  /\ IF absdiff_raises(base_gray)
       THEN Raise
       ELSE /\ rects' = KeptRects(findContours(Thresh(base_gray, image, SensInit)))
            /\ obj' = Cardinality(rects')
            /\ pc' = "led_1"
            /\ UNCHANGED <<base_gray, image, camera>>
  /\ UNCHANGED <<nav, leds, pending, widgets, cal_state, d>>
rd_detect ==
  /\ pc = "detect" /\ CtlReady
  /\ IF absdiff_raises(base_gray)
       THEN Raise
       ELSE /\ rects' = KeptRects(findContours(Thresh(base_gray, image, sens)))
            /\ obj' = Cardinality(rects')
            /\ pc' = "led_1"
            /\ UNCHANGED <<base_gray, image, camera>>
  /\ UNCHANGED <<nav, leds, pending, widgets, cal_state, d>>

\* if obj: self.led_r.on()   else: self.led_r.off()
rd_led_1 ==
  /\ pc = "led_1"
  /\ IF led_r.open
       THEN /\ led_r' = SetOn(led_r, obj > 0)
            /\ pc' = "led_2"
            /\ UNCHANGED <<dif_locals, camera>>
       ELSE /\ Raise
            /\ UNCHANGED led_r
  /\ UNCHANGED <<nav, led_g, led_flash, pending, widgets, cal_state, d>>

\* if obj: self.led_g.off()  else: self.led_g.on()
rd_led_2 ==
  /\ pc = "led_2"
  /\ IF led_g.open
       THEN /\ led_g' = SetOn(led_g, obj = 0)
            /\ pc' = "show"
            /\ UNCHANGED <<dif_locals, camera>>
       ELSE /\ Raise
            /\ UNCHANGED led_g
  /\ UNCHANGED <<nav, led_r, led_flash, pending, widgets, cal_state, d>>

\* label_img.configure(image=img); pb_dif.stop(); root.update(); the
\* with-blocks exit and the camera closes
rd_show_saves ==
  /\ pc = "show" /\ CtlReady
  /\ label_img' = [set |-> TRUE, image |-> image, rects |-> rects]
  /\ pb_dif' = FALSE
  /\ camera' = "free"
  /\ pc' = "idle"
  /\ ResetLocals
  /\ average' = image
  /\ UNCHANGED <<nav, leds, pending, cal_frame, cal_buttons, cal_pc, cal_i,
                 num_current, num_total, cal_n, files, acc, d>>
rd_show ==
  /\ pc = "show" /\ CtlReady
  /\ label_img' = [set |-> TRUE, image |-> image, rects |-> rects]
  /\ pb_dif' = FALSE
  /\ camera' = "free"
  /\ pc' = "idle"
  /\ ResetLocals
  /\ UNCHANGED <<nav, leds, pending, cal_state, d>>

run_dif ==
  \/ rd_start \/ rd_camera \/ rd_flash_on \/ rd_capture \/ rd_flash_off
  \/ rd_detect \/ rd_led_1 \/ rd_led_2 \/ rd_show

\* ------------------------- calibrate_start, on the control thread
\* The mold is not touched while a calibration runs: its samples show the
\* same scene.
Steady(img) == \A s \in Sites : acc[s] = (cal_i - 1) * img[s]

\* calibrate_start returns: its locals are gone
CalReturn ==
  /\ cal_i' = 0
  /\ cal_n' = 0
  /\ acc' = [s \in Sites |-> 0]

\* rb_1, rb_2, rb_3 of init_main: a radio button sets num_total
rb_num ==
  /\ CtlReady /\ frame = "calibration" /\ cal_frame = "main"
  /\ \E n \in NumChoices : num_total' = n
  /\ UNCHANGED <<nav, leds, pending, pc, dif_locals, widgets, camera,
                 cal_frame, cal_buttons, cal_pc, cal_i, num_current,
                 cal_n, files, acc, average, d>>

\* main2inprogress(); with PiCamera() as camera: camera = init_camera(camera);
\* range(1, self.num_total.get() + 1) is evaluated once
calibrate_start ==
  /\ CtlReady /\ frame = "calibration" /\ cal_frame = "main"
  /\ cal_frame' = "inprogress"
  /\ IF camera = "free"
       THEN /\ camera' = "cal"
            /\ cal_pc' = "capture"
            /\ cal_i' = 1
            /\ cal_n' = num_total
            /\ acc' = [s \in Sites |-> 0]
       ELSE UNCHANGED <<camera, cal_pc, cal_i, cal_n, acc>>
  /\ UNCHANGED <<nav, leds, pending, pc, dif_locals, widgets,
                 cal_buttons, num_current, num_total, files, average, d>>

\* camera.capture('img{:0>2}.jpg'.format(i), ...); num_current.set(i); an
\* error leaves the with-block and closes the camera
cal_capture_partial ==
  /\ cal_pc = "capture"
  /\ \/ /\ \E img \in Images :
             /\ Steady(img)
             /\ acc' = [s \in Sites |-> acc[s] + img[s]]
        /\ files' = files \cup {cal_i}
        /\ num_current' = cal_i
        /\ cal_pc' = "update"
        /\ UNCHANGED <<camera, cal_i, cal_n, average>>
     \/ /\ cal_pc' = "idle"
        /\ camera' = "free"
        /\ CalReturn
        /\ average' = IF cal_i > 1
                        THEN [s \in Sites |-> Round(acc[s], cal_i - 1)]
                        ELSE average
        /\ UNCHANGED <<files, num_current>>
  /\ UNCHANGED <<nav, leds, pending, pc, dif_locals, widgets,
                 cal_frame, cal_buttons, num_total, d>>
cal_capture ==
  /\ cal_pc = "capture"
  /\ \/ /\ \E img \in Images :
             /\ Steady(img)
             /\ acc' = [s \in Sites |-> acc[s] + img[s]]
        /\ files' = files \cup {cal_i}
        /\ num_current' = cal_i
        /\ cal_pc' = "update"
        /\ UNCHANGED <<camera, cal_i, cal_n>>
     \/ /\ cal_pc' = "idle"
        /\ camera' = "free"
        /\ CalReturn
        /\ UNCHANGED <<files, num_current>>
  /\ UNCHANGED <<nav, leds, pending, pc, dif_locals, widgets,
                 cal_frame, cal_buttons, num_total, average, d>>

\* self.master.root.update() returns; next i, or the loop is over
cal_update_short ==
  /\ cal_pc = "update"
  /\ IF cal_i < cal_n - 1
       THEN cal_i' = cal_i + 1 /\ cal_pc' = "capture"
       ELSE cal_i' = cal_i /\ cal_pc' = "average"
  /\ UNCHANGED <<nav, leds, pending, pc, dif_locals, widgets,
                 camera, cal_frame, cal_buttons, num_current,
                 num_total, cal_n, files, acc, average, d>>
cal_update ==
  /\ cal_pc = "update"
  /\ IF cal_i < cal_n
       THEN cal_i' = cal_i + 1 /\ cal_pc' = "capture"
       ELSE cal_i' = cal_i /\ cal_pc' = "average"
  /\ UNCHANGED <<nav, leds, pending, pc, dif_locals, widgets,
                 camera, cal_frame, cal_buttons, num_current,
                 num_total, cal_n, files, acc, average, d>>

\* N = len(images); avgImgArr = sum of imgArr / N; numpy.round;
\* avgImg.save('average.jpg')
cal_average ==
  /\ cal_pc = "average"
  /\ average' = [s \in Sites |-> Round(acc[s], cal_n)]
  /\ cal_pc' = "update_avg"
  /\ UNCHANGED <<nav, leds, pending, pc, dif_locals, widgets,
                 camera, cal_frame, cal_buttons, cal_i,
                 num_current, num_total, cal_n, files, acc, d>>

\* for i in range(1, self.num_total.get() + 1): os.remove(img<i>.jpg) stops
\* with FileNotFoundError at the first i that has no file
Removed(n) == {i \in 1 .. n : \A j \in 1 .. i : j \in files}

\* root.update() returns; os.remove of the samples; Back and Finish are
\* gridded; the with-block exits and the camera closes
cal_finish ==
  /\ cal_pc = "update_avg"
  /\ files' = files \ Removed(num_total)
  /\ cal_buttons' = (cal_buttons \/ Removed(num_total) = 1 .. num_total)
  /\ camera' = "free"
  /\ cal_pc' = "idle"
  /\ CalReturn
  /\ UNCHANGED <<nav, leds, pending, pc, dif_locals, widgets,
                 cal_frame, num_current, num_total, average, d>>

calibration ==
  \/ calibrate_start \/ cal_capture \/ cal_update \/ cal_average \/ cal_finish

Next ==
  \/ splash2calibration \/ splash2difference \/ difference2splash
  \/ cal_inprogress2main \/ calibration2splash
  \/ set_sens \/ main2inprogress \/ inprogress2main
  \/ Press \/ when_pressed
  \/ run_dif
  \/ calibration

Spec == Init /\ [][Next]_vars

\* ---------------------------------------------------------------------
\* SpecCal: the calibration screen with its radio buttons.  Spec leaves
\* num_total at its default; here the operator also picks 10, 15 or 20
\* samples, before or (through Back of an earlier calibration) during a
\* calibration.  The analysis screen is not entered.
CalNext ==
  \/ splash2calibration \/ cal_inprogress2main \/ calibration2splash
  \/ rb_num
  \/ calibration

SpecCal == Init /\ [][CalNext]_vars

\* ---------------------------------------------------------------------
\* SpecDetect: the detection steps of run_dif as a function of their
\* inputs.  The picture is the baseline except for one rectangular blob of
\* w x h pixels at (x, y); base and img are the luminance of the blob's
\* pixels in average.jpg and in the captured frame.
Dims == ((MinSize - 2) .. (MinSize + 3)) \cup {50}
Pixels == 0 .. MaxVal
BlobAt == <<10, 10>>

DetectInputs ==
  \* every difference against every threshold, from both ends of the range
  [stage : {"in"}, base : {0, MaxVal}, img : Pixels, sens : 0 .. MaxVal,
   w : {MinSize + 1}, h : {MinSize + 1}]
  \cup
  \* every blob size around the filter's limit, on a blob that differs
  [stage : {"in"}, base : {0}, img : {MaxVal}, sens : {SensInit},
   w : Dims, h : Dims]
  \cup
  \* a white square of 20 or 40 pixels on black, sensitivity 10
  [stage : {"in"}, base : {0}, img : {MaxVal}, sens : {10},
   w : {20, 40}, h : {20, 40}]

DetectInit ==
  /\ frame = "splash" /\ dif_frame = "main" /\ cal_frame = "main"
  /\ cal_buttons = FALSE /\ sens = SensInit
  /\ switch = NoDevice /\ led_r = NoDevice /\ led_g = NoDevice
  /\ led_flash = NoDevice /\ pending = 0 /\ pc = "idle"
  /\ base_gray = Missing /\ image = NoImage /\ obj = 0 /\ rects = {}
  /\ label_img = NoLabel /\ pb_dif = FALSE
  /\ camera = "free" /\ average = Missing /\ cal_pc = "idle" /\ cal_i = 0
  /\ num_current = 0 /\ num_total = NumTotal /\ cal_n = 0 /\ files = {}
  /\ acc = [s \in Sites |-> 0]
  /\ d \in DetectInputs

\* diff = cv2.absdiff(base_gray, image_gray); thresh = cv2.threshold(...)[1]
det_threshold ==
  /\ d.stage = "in"
  /\ d' = [stage |-> "thresh", base |-> d.base, img |-> d.img, sens |-> d.sens,
           w |-> d.w, h |-> d.h,
           thresh |-> threshold(absdiff(d.base, d.img), d.sens)]
  /\ UNCHANGED app_vars

\* findContours, boundingRect and the size filter; obj counts the kept ones
det_regions ==
  /\ d.stage = "thresh"
  /\ LET conts == IF d.thresh # 0 THEN {<<BlobAt[1], BlobAt[2], d.w, d.h>>} ELSE {}
         kept  == {r \in conts : Keep(r[3], r[4])}
     IN  d' = [stage |-> "done", base |-> d.base, img |-> d.img,
               sens |-> d.sens, w |-> d.w, h |-> d.h, thresh |-> d.thresh,
               conts |-> conts, rects |-> kept, obj |-> Cardinality(kept)]
  /\ UNCHANGED app_vars

DetectNext == det_threshold \/ det_regions

SpecDetect == DetectInit /\ [][DetectNext]_vars

\* ---------------------------------------------------------------------
\* SpecBands: the detection steps of run_dif on pictures whose regions can
\* touch.  The pictures differ only inside a row of vertical bands that lie
\* side by side: band b is wd[b] pixels wide, all bands have the same top
\* and height, and base[b], img[b] are the luminance of the band's pixels in
\* average.jpg and in the captured frame.  The same pair of pictures is run
\* with two sensitivities s1 <= s2.

\* the frozen application state of the specifications on free inputs
AppInit ==
  /\ frame = "splash" /\ dif_frame = "main" /\ cal_frame = "main"
  /\ cal_buttons = FALSE /\ sens = SensInit
  /\ switch = NoDevice /\ led_r = NoDevice /\ led_g = NoDevice
  /\ led_flash = NoDevice /\ pending = 0 /\ pc = "idle"
  /\ base_gray = Missing /\ image = NoImage /\ obj = 0 /\ rects = {}
  /\ label_img = NoLabel /\ pb_dif = FALSE
  /\ camera = "free" /\ average = Missing /\ cal_pc = "idle" /\ cal_i = 0
  /\ num_current = 0 /\ num_total = NumTotal /\ cal_n = 0 /\ files = {}
  /\ acc = [s \in Sites |-> 0]

Bands == {1, 2, 3}
\* x of the first band, top and height of every band
BandBox == <<10, 10, 40>>
BandWidths == {4, MinSize + 1}
BandBase == {0, 30}
BandGrays == {0, 10, 30}
BandSens == {0, 10, SensInit, MaxVal}

\* total width of the bands i .. j
RECURSIVE SpanWidth(_, _, _)
SpanWidth(wd, i, j) == IF i > j THEN 0 ELSE wd[i] + SpanWidth(wd, i + 1, j)

\* thresh of run_dif, band by band
BandThresh(base, img, t) ==
  [b \in Bands |-> threshold(absdiff(base[b], img[b]), t)]

\* cv2.findContours(thresh, RETR_EXTERNAL, ..): one outer contour per
\* connected foreground region, that is per maximal run i .. j of foreground
\* bands
BandContours(th) ==
  {run \in Bands \X Bands :
     /\ run[1] <= run[2]
     /\ \A k \in run[1] .. run[2] : th[k] # 0
     /\ (run[1] - 1 \in Bands => th[run[1] - 1] = 0)
     /\ (run[2] + 1 \in Bands => th[run[2] + 1] = 0)}

\* cv2.boundingRect(c) of the contour around the bands run[1] .. run[2]
BandRect(wd, run) ==
  <<BandBox[1] + SpanWidth(wd, 1, run[1] - 1), BandBox[2],
    SpanWidth(wd, run[1], run[2]), BandBox[3]>>

\* for c in conts: ... if w > 35 and h > 35: cv2.rectangle(..); obj += 1
RECURSIVE contour_loop_all(_, _, _, _)
contour_loop_all(wd, conts, drawn, n) ==
  IF conts = {} THEN [rects |-> drawn, obj |-> n]
  ELSE LET c == CHOOSE x \in conts : TRUE
           r == BandRect(wd, c)
       IN  IF Keep(r[3], r[4])
             THEN contour_loop_all(wd, conts \ {c}, drawn \cup {r}, n + 1)
             ELSE contour_loop_all(wd, conts \ {c}, drawn \cup {r}, n)
RECURSIVE contour_loop(_, _, _, _)
contour_loop(wd, conts, drawn, n) ==
  IF conts = {} THEN [rects |-> drawn, obj |-> n]
  ELSE LET c == CHOOSE x \in conts : TRUE
           r == BandRect(wd, c)
       IN  IF Keep(r[3], r[4])
             THEN contour_loop(wd, conts \ {c}, drawn \cup {r}, n + 1)
             ELSE contour_loop(wd, conts \ {c}, drawn, n)

\* absdiff .. the loop over the contours .. "if obj:" of run_dif
band_run(base, img, wd, t) ==
  LET th   == BandThresh(base, img, t)
      cs   == BandContours(th)
      loop == contour_loop(wd, cs, {}, 0)
  IN  [thresh |-> th, conts |-> {BandRect(wd, c) : c \in cs},
       rects |-> loop.rects, obj |-> loop.obj, defect |-> (loop.obj # 0)]

BandInputs ==
  {i \in [stage : {"b_in"}, base : [Bands -> BandBase],
          img : [Bands -> BandGrays], wd : [Bands -> BandWidths],
          s1 : BandSens, s2 : BandSens] : i.s1 <= i.s2}

BandInit == AppInit /\ d \in BandInputs

\* the detection steps with sensitivity s1
band_first ==
  /\ d.stage = "b_in"
  /\ d' = [stage |-> "b_one", base |-> d.base, img |-> d.img, wd |-> d.wd,
           s1 |-> d.s1, s2 |-> d.s2,
           r1 |-> band_run(d.base, d.img, d.wd, d.s1)]
  /\ UNCHANGED app_vars

\* the same pictures with sensitivity s2
band_second ==
  /\ d.stage = "b_one"
  /\ d' = [stage |-> "b_two", base |-> d.base, img |-> d.img, wd |-> d.wd,
           s1 |-> d.s1, s2 |-> d.s2, r1 |-> d.r1,
           r2 |-> band_run(d.base, d.img, d.wd, d.s2)]
  /\ UNCHANGED app_vars

BandNext == band_first \/ band_second

SpecBands == BandInit /\ [][BandNext]_vars

\* ---------------------------------------------------------------------
\* SpecAvg: the averaging of calibrate_start (lines 559-567) on N sample
\* pictures of constant value.  avgImgArr accumulates imgArr / N in binary
\* floating point.  Each quotient and each sum carries an error far below
\* 1 / (2 N), so numpy.round of the accumulated value is the nearest integer
\* of the exact mean whenever that mean is not half-way between two
\* integers; at a half-way mean the accumulated error decides, unless every
\* quotient was exact.  For the sample values of AvgVals the results below
\* are those of IEEE double arithmetic on every sequence of samples.

AvgVals == {1, 128, MaxVal}

RECURSIVE GCD(_, _)
GCD(a, b) == IF b = 0 THEN a ELSE GCD(b, a % b)

\* imgArr / N has no rounding error: N / gcd(v, N) is a power of two
ExactQuot(v, N) == N \div GCD(v, N) \in {1, 2, 4, 8, 16}

\* numpy.round(avgImgArr) for an exact mean of n / k: the values it can give
numpy_round_trunc(n, k, exact) == {n \div k}
numpy_round(n, k, exact) ==
  IF 2 * (n % k) = k /\ ~exact
    THEN {n \div k, n \div k + 1}
    ELSE {Round(n, k)}

\* numpy.array(.., dtype=numpy.uint8)
uint8(x) == x % (MaxVal + 1)

AvgInit ==
  /\ AppInit
  /\ d \in [stage : {"a_loop"}, N : NumChoices, i : {0}, sum : {0},
            exact : {TRUE}]

\* for img in images: avgImgArr = avgImgArr + imgArr / N
avg_add ==
  /\ d.stage = "a_loop" /\ d.i < d.N
  /\ \E v \in AvgVals :
       d' = [d EXCEPT !.i = d.i + 1, !.sum = d.sum + v,
                      !.exact = d.exact /\ ExactQuot(v, d.N)]
  /\ UNCHANGED app_vars

\* avgImgArr = numpy.array(numpy.round(avgImgArr), dtype=numpy.uint8)
avg_round ==
  /\ d.stage = "a_loop" /\ d.i = d.N
  /\ \E r \in numpy_round(d.sum, d.N, d.exact) :
       d' = [stage |-> "a_done", N |-> d.N, i |-> d.i, sum |-> d.sum,
             exact |-> d.exact, avg |-> uint8(r)]
  /\ UNCHANGED app_vars

AvgNext == avg_add \/ avg_round

SpecAvg == AvgInit /\ [][AvgNext]_vars

\* ---------------------------------------------------------------------
\* SpecFrames: the setting frames of src/frames.py.  Each frame owns one
\* value (an IntVar shown in an Entry) and two buttons, '+' (add) and '-'
\* (sub).  The four frames do not touch each other's value, so one frame at
\* a time is followed: d.frame names it, d.value is its value, d.op the last
\* button pressed and d.err whether that handler ended with an exception.
BRI_DELTA == 5
CON_DELTA == 10
SHA_DELTA == 10
SHU_DELTA == 100
SHU_MIN == 1000
SHU_MAX == 3000

\* what a handler leaves: the value set, or the value as it was and an error
Done(val) == [value |-> val, err |-> FALSE]
Raised(val) == [value |-> val, err |-> TRUE]

BrightnessFrame_add(val) ==
  IF val >= 100 - BRI_DELTA THEN Done(100)
  ELSE IF val < 100 - BRI_DELTA /\ val >= 0 THEN Done(val + BRI_DELTA)
  ELSE Done(0)

BrightnessFrame_sub(val) ==
  IF val > 100 THEN Done(100)
  ELSE IF val <= 100 /\ val >= BRI_DELTA + 0 THEN Done(val - BRI_DELTA)
  ELSE Done(0)

ContrastFrame_add(val) ==
  IF val >= 100 - CON_DELTA THEN Done(100)
  ELSE IF val < 100 - CON_DELTA /\ val >= -100 THEN Done(val + CON_DELTA)
  ELSE Done(0)

ContrastFrame_sub(val) ==
  IF val > 100 THEN Done(100)
  ELSE IF val <= 100 /\ val >= CON_DELTA - 100 THEN Done(val - CON_DELTA)
  ELSE Done(-100)

SharpnessFrame_add(val) ==
  IF val >= 100 - SHA_DELTA THEN Done(100)
  ELSE IF val < 100 - SHA_DELTA /\ val >= -100 THEN Done(val + SHA_DELTA)
  ELSE Done(-100)

SharpnessFrame_sub(val) ==
  IF val > 100 THEN Done(100)
  ELSE IF val <= 100 /\ val >= SHA_DELTA - 100 THEN Done(val - SHA_DELTA)
  ELSE Done(0)

ShutterSpeedFrame_add_noclamp(val) == Done(val + SHU_DELTA)
ShutterSpeedFrame_add(val) ==
  IF val >= SHU_MAX - SHU_DELTA THEN Done(SHU_MAX)
  ELSE IF val < SHU_MAX - SHU_DELTA /\ val >= SHU_MIN THEN Done(val + SHU_DELTA)
  ELSE Done(SHU_MIN)

\* the else branch reads vSHU_MIN, a name that is not defined: NameError,
\* the value is not set
ShutterSpeedFrame_sub(val) ==
  IF val > SHU_MAX THEN Done(SHU_MAX)
  ELSE IF val <= SHU_MAX /\ val >= SHU_DELTA + SHU_MIN THEN Done(val - SHU_DELTA)
  ELSE Raised(val)

\* the values onValidate accepts in the frame's Entry
FrameRange(f) ==
  CASE f = "bri" -> 0 .. 100
    [] f = "con" -> -100 .. 100
    [] f = "sha" -> -100 .. 100
    [] f = "shu" -> SHU_MIN .. SHU_MAX

FramesInit ==
  /\ AppInit
  /\ d \in {[stage |-> "frames", frame |-> f, value |-> v,
             op |-> "none", err |-> FALSE] :
              f \in {"bri", "con", "sha", "shu"}, v \in -100 .. SHU_MAX}
  /\ d.value \in FrameRange(d.frame)

\* the frame after a handler: the value it set, the button, the error
After(op, res) == [d EXCEPT !.value = res.value, !.op = op, !.err = res.err]

\* the '+' button of BrightnessFrame
bri_add ==
  /\ d.stage = "frames" /\ d.frame = "bri"
  /\ d' = After("add", BrightnessFrame_add(d.value))
  /\ UNCHANGED app_vars

\* the '-' button of BrightnessFrame
bri_sub ==
  /\ d.stage = "frames" /\ d.frame = "bri"
  /\ d' = After("sub", BrightnessFrame_sub(d.value))
  /\ UNCHANGED app_vars

\* the '+' button of ContrastFrame
con_add ==
  /\ d.stage = "frames" /\ d.frame = "con"
  /\ d' = After("add", ContrastFrame_add(d.value))
  /\ UNCHANGED app_vars

\* the '-' button of ContrastFrame
con_sub ==
  /\ d.stage = "frames" /\ d.frame = "con"
  /\ d' = After("sub", ContrastFrame_sub(d.value))
  /\ UNCHANGED app_vars

\* the '+' button of SharpnessFrame
sha_add ==
  /\ d.stage = "frames" /\ d.frame = "sha"
  /\ d' = After("add", SharpnessFrame_add(d.value))
  /\ UNCHANGED app_vars

\* the '-' button of SharpnessFrame
sha_sub ==
  /\ d.stage = "frames" /\ d.frame = "sha"
  /\ d' = After("sub", SharpnessFrame_sub(d.value))
  /\ UNCHANGED app_vars

\* the '+' button of ShutterSpeedFrame
shu_add ==
  /\ d.stage = "frames" /\ d.frame = "shu"
  /\ d' = After("add", ShutterSpeedFrame_add(d.value))
  /\ UNCHANGED app_vars

\* the '-' button of ShutterSpeedFrame
shu_sub ==
  /\ d.stage = "frames" /\ d.frame = "shu"
  /\ d' = After("sub", ShutterSpeedFrame_sub(d.value))
  /\ UNCHANGED app_vars

FramesNext ==
  \/ bri_add \/ bri_sub \/ con_add \/ con_sub
  \/ sha_add \/ sha_sub \/ shu_add \/ shu_sub

SpecFrames == FramesInit /\ [][FramesNext]_vars

\* ---------------------------------------------------------------------
\* SpecSettings: SettingsFrame, its five screens, the file
\* camerasettings.json and the captures zoom_bg.gif and zoom_test.gif.
\* Every handler runs on the control thread from start to end.  The rest of
\* the application is frozen.  Numbers of a zoom rectangle are in
\* thousandths.

\* capture_image_zoom: camera.capture('zoom_bg.gif', resize=(400, 250));
\* init_zoom: self.zoom_w = img.width(), self.zoom_h = img.height()
ZoomW == 400
ZoomH == 250
\* the operator's value inputs in one run: '+', '-', rotation, press, release
MaxInputs == 2

\* Python values: a tuple is a sequence; a JSON array and the text of a
\* tuple are other values, made and read by the conversions of the code
tuple(l) == l.list
json_array(t) == [list |-> t]
str(t) == [str |-> t]
literal_eval(s) == s.str

WithZoom(rec, z) == [rec EXCEPT !.zoom = z]

\* capture_image_zoom: camera.zoom = (0.0, 0.0, 1.0, 1.0)
FullZoom == <<0, 0, 1000, 1000>>

\* the sections 'default' and 'custom' camerasettings.json may hold at start
FileDefaults ==
  {[brightness |-> 50, contrast |-> 0, rotation |-> 0, sharpness |-> 0,
    shutter_speed |-> 2000, zoom |-> json_array(FullZoom)],
   [brightness |-> 55, contrast |-> 10, rotation |-> 180, sharpness |-> -100,
    shutter_speed |-> SHU_MIN, zoom |-> json_array(<<100, 100, 900, 900>>)]}
FileCustoms ==
  {[brightness |-> 50, contrast |-> 0, rotation |-> 0, sharpness |-> 0,
    shutter_speed |-> 2000, zoom |-> json_array(FullZoom)],
   [brightness |-> 100, contrast |-> -100, rotation |-> 90, sharpness |-> 100,
    shutter_speed |-> SHU_MAX, zoom |-> json_array(<<250, 200, 750, 800>>)]}

\* json.load, then the two zoom arrays become tuples; def_* and cus_* are
\* IntVars, def_zoo and cus_zoo StringVars of str(tuple)
init_vars(file) ==
  LET settings == [default |-> WithZoom(file.default, tuple(file.default.zoom)),
                   custom |-> WithZoom(file.custom, tuple(file.custom.zoom))]
  IN  [json_settings |-> settings,
       def |-> WithZoom(settings.default, str(settings.default.zoom)),
       cus |-> WithZoom(settings.custom, str(settings.custom.zoom))]

\* json.dump(self.json_settings, file): a tuple is written as an array
json_dump(js) ==
  [default |-> WithZoom(js.default, json_array(js.default.zoom)),
   custom |-> WithZoom(js.custom, json_array(js.custom.zoom))]

\* variant: writes the custom values into both sections
save_vars_both(st) ==
  LET v == WithZoom(st.cus, literal_eval(st.cus.zoom))
      js == [default |-> v, custom |-> v]
  IN  [st EXCEPT !.json_settings = js, !.file = json_dump(js)]
\* variant: writes nothing
save_vars_skip(st) == st
save_vars(st) ==
  LET v == WithZoom(st.cus, literal_eval(st.cus.zoom))
      js == [st.json_settings EXCEPT !.custom = v]
  IN  [st EXCEPT !.json_settings = js, !.file = json_dump(js)]

reset_to_default(st) == [st EXCEPT !.cus = st.def]

\* init_camera: the custom section of the file, zoom as a tuple, is set on
\* the camera
init_camera(file) == WithZoom(file.custom, tuple(file.custom.zoom))

\* with PiCamera() as camera: ... camera.capture(fn): the capture is taken
\* with the attributes config, or PiCamera() or capture raises
Capture(st, fn, config, ok) ==
  IF st.err THEN st
  ELSE IF ok
    THEN [st EXCEPT !.caps = Append(@, [file |-> fn, config |-> config,
                                        cus |-> st.cus,
                                        saved |-> st.file.custom])]
    ELSE [st EXCEPT !.err = TRUE]

capture_image_zoom(st, ok) ==
  LET s1 == save_vars(st)
  IN  Capture(s1, "zoom_bg.gif", WithZoom(init_camera(s1.file), FullZoom), ok)

zoom_test(st, ok) ==
  IF st.err THEN st
  ELSE LET s1 == save_vars(st)
       IN  Capture(s1, "zoom_test.gif", init_camera(s1.file), ok)

\* round(n / w, 3) in thousandths.  n / w is a double; where 1000 n / w is
\* half-way between two integers the double lies on one side of the tie:
\* above it for the n of TieUp, below it for the other n used here
TieUp == {1, 137}
round3(n, w) ==
  LET lo == (1000 * n) \div w
      r == (1000 * n) % w
  IN  IF 2 * r > w THEN lo + 1
      ELSE IF 2 * r < w THEN lo
      ELSE IF n \in TieUp THEN lo + 1 ELSE lo

Min(a, b) == IF a < b THEN a ELSE b
Max(a, b) == IF a > b THEN a ELSE b

\* dx = 0 if dx < 0 else dx; dx = self.zoom_w if dx > self.zoom_w else dx
Clamp(v, hi) ==
  LET v0 == IF v < 0 THEN 0 ELSE v
  IN  IF v0 > hi THEN hi ELSE v0
\* the globals dx, dy, ux, uy after getzoomcoords
Clamped(g) == [dx |-> Clamp(g.dx, ZoomW), dy |-> Clamp(g.dy, ZoomH),
               ux |-> Clamp(g.ux, ZoomW), uy |-> Clamp(g.uy, ZoomH)]
\* variant: the release position is not clamped
getzoomcoords_noclamp(g) ==
  LET c == [Clamped(g) EXCEPT !.ux = g.ux, !.uy = g.uy]
  IN  <<round3(Min(c.dx, c.ux), ZoomW), round3(Min(c.dy, c.uy), ZoomH),
        round3(Max(c.dx, c.ux), ZoomW), round3(Max(c.dy, c.uy), ZoomH)>>
getzoomcoords(g) ==
  LET c == Clamped(g)
  IN  <<round3(Min(c.dx, c.ux), ZoomW), round3(Min(c.dy, c.uy), ZoomH),
        round3(Max(c.dx, c.ux), ZoomW), round3(Max(c.dy, c.uy), ZoomH)>>

\* init_settings builds Finish and Back (to the zoom screen) when
\* zoom_finished, else Back (to main) and Next (to the zoom screen when
\* using_auto, to the manual screen otherwise)
init_settings(st) ==
  [st EXCEPT !.buttons = IF st.zoom_finished THEN "finish"
                         ELSE IF st.using_auto = "True" THEN "auto"
                         ELSE "manual"]

\* init_zoom: capture_image_zoom(); dx = dy = 0; ux, uy = width and height
init_zoom(st, ok) ==
  LET s1 == capture_image_zoom(st, ok)
  IN  IF s1.err THEN s1
      ELSE [s1 EXCEPT !.g = [dx |-> 0, dy |-> 0, ux |-> ZoomW, uy |-> ZoomH]]

\* init_zoom_confirm: self.zoom_test(); the picture is shown
init_zoom_confirm(st, ok) == zoom_test(st, ok)

\* a handler starts: nothing raised and nothing captured yet
Begin(op) == [d EXCEPT !.op = op, !.err = FALSE, !.caps = <<>>]
\* frame.pack(...) at the end of a handler that did not raise
Pack(st, sub) == IF st.err THEN st ELSE [st EXCEPT !.sub = sub]

\* where the operator presses and releases on the zoom canvas
DragPoints == {<<137, 300>>, <<-20, 125>>}

SettingsInit ==
  /\ AppInit
  /\ \E def \in FileDefaults, cus \in FileCustoms :
       LET file == [default |-> def, custom |-> cus]
           v == init_vars(file)
       IN  d = [stage |-> "settings", screen |-> "splash", sub |-> "main",
                using_auto |-> "None", zoom_finished |-> FALSE,
                buttons |-> "none",
                file |-> file, loaded |-> file,
                json_settings |-> v.json_settings,
                def |-> v.def, cus |-> v.cus,
                g |-> [dx |-> 0, dy |-> 0, ux |-> ZoomW, uy |-> ZoomH],
                caps |-> <<>>, err |-> FALSE, op |-> "none", inputs |-> 0]

OnSettings(sub) ==
  d.stage = "settings" /\ d.screen = "settings" /\ d.sub = sub

\* MainFrame.splash2settings
splash2settings ==
  /\ d.stage = "settings" /\ d.screen = "splash"
  /\ d' = [Begin("splash2settings") EXCEPT !.screen = "settings"]
  /\ UNCHANGED app_vars

\* Auto Setup
main2settings ==
  /\ OnSettings("main")
  /\ d' = Pack(init_settings(reset_to_default(
             [Begin("main2settings") EXCEPT !.using_auto = "True"])),
             "settings")
  /\ UNCHANGED app_vars

\* Back of the settings screen built without zoom_finished
settings2main ==
  /\ OnSettings("settings") /\ d.buttons \in {"auto", "manual"}
  /\ d' = Pack([Begin("settings2main") EXCEPT !.using_auto = "None"], "main")
  /\ UNCHANGED app_vars

\* Next of the settings screen in Auto Setup, Back of it when zoom_finished
settings2zoom ==
  /\ OnSettings("settings") /\ d.buttons \in {"auto", "finish"}
  /\ \E ok \in BOOLEAN :
       d' = Pack(init_zoom(Begin("settings2zoom"), ok), "zoom")
  /\ UNCHANGED app_vars

\* Home of the main screen, Finish of the settings screen:
\* zoom_finished = False; save_vars(); settings2main();
\* master.settings2splash()
settings2splash ==
  /\ OnSettings("main") \/ (OnSettings("settings") /\ d.buttons = "finish")
  /\ d' = [Pack(save_vars([Begin("settings2splash")
                             EXCEPT !.zoom_finished = FALSE]), "main")
             EXCEPT !.using_auto = "None", !.screen = "splash"]
  /\ UNCHANGED app_vars

\* Next of the zoom screen: frame_zoom.pack_forget(); save_vars();
\* cus_zoo.set(str(getzoomcoords())); zoom_test(); init_zoom_confirm()
zoom2settings_n ==
  /\ OnSettings("zoom")
  /\ \E fail \in 0 .. 2 :
       LET s1 == save_vars([Begin("zoom2settings_n") EXCEPT !.sub = "none"])
           s2 == [s1 EXCEPT !.cus.zoom = str(getzoomcoords(s1.g)),
                            !.g = Clamped(s1.g)]
           s3 == zoom_test(s2, fail # 1)
           s4 == init_zoom_confirm(s3, fail # 2)
       IN  d' = Pack(s4, "zoom_confirm")
  /\ UNCHANGED app_vars

\* Back of the zoom screen in Auto Setup: init_settings(); zoom_finished =
\* False
zoom2settings_b ==
  /\ OnSettings("zoom") /\ d.using_auto = "True"
  /\ d' = Pack([init_settings(Begin("zoom2settings_b"))
                  EXCEPT !.zoom_finished = FALSE], "settings")
  /\ UNCHANGED app_vars

\* Back of the zoom screen in Manual Setup
zoom2manual ==
  /\ OnSettings("zoom") /\ d.using_auto # "True"
  /\ d' = Pack([Begin("zoom2manual") EXCEPT !.zoom_finished = FALSE],
               "manual")
  /\ UNCHANGED app_vars

\* Yes: frame_zoom_confirm.pack_forget(); cus_zoo.set(str(getzoomcoords()));
\* zoom_finished = True; init_settings()
conf2settings ==
  /\ OnSettings("zoom_confirm")
  /\ d' = Pack(init_settings(
             [Begin("conf2settings")
                EXCEPT !.cus.zoom = str(getzoomcoords(d.g)),
                       !.g = Clamped(d.g),
                       !.zoom_finished = TRUE]), "settings")
  /\ UNCHANGED app_vars

\* No
conf2zoom ==
  /\ OnSettings("zoom_confirm")
  /\ \E ok \in BOOLEAN :
       d' = Pack(init_zoom(Begin("conf2zoom"), ok), "zoom")
  /\ UNCHANGED app_vars

\* Manual Setup
main2manual ==
  /\ OnSettings("main")
  /\ d' = Pack([Begin("main2manual") EXCEPT !.using_auto = "False"],
               "manual")
  /\ UNCHANGED app_vars

\* Next of the manual screen
manual2zoom ==
  /\ OnSettings("manual")
  /\ \E ok \in BOOLEAN :
       d' = Pack(init_zoom(Begin("manual2zoom"), ok), "zoom")
  /\ UNCHANGED app_vars

\* Back of the manual screen
manual2main ==
  /\ OnSettings("manual")
  /\ d' = Pack([Begin("manual2main") EXCEPT !.using_auto = "None"], "main")
  /\ UNCHANGED app_vars

\* Reset to default, on the manual screen
reset_settings ==
  /\ OnSettings("manual")
  /\ d' = reset_to_default(Begin("reset_to_default"))
  /\ UNCHANGED app_vars

\* '+' and '-' of the four frames init_manual builds on the custom
\* variables
FrameButton(f, op, val) ==
  CASE f = "brightness" /\ op = "add" -> BrightnessFrame_add(val)
    [] f = "brightness" /\ op = "sub" -> BrightnessFrame_sub(val)
    [] f = "contrast" /\ op = "add" -> ContrastFrame_add(val)
    [] f = "contrast" /\ op = "sub" -> ContrastFrame_sub(val)
    [] f = "sharpness" /\ op = "add" -> SharpnessFrame_add(val)
    [] f = "sharpness" /\ op = "sub" -> SharpnessFrame_sub(val)
    [] f = "shutter_speed" /\ op = "add" -> ShutterSpeedFrame_add(val)
    [] f = "shutter_speed" /\ op = "sub" -> ShutterSpeedFrame_sub(val)

manual_button ==
  /\ OnSettings("manual") /\ d.inputs < MaxInputs
  /\ \E f \in {"brightness", "contrast", "sharpness", "shutter_speed"},
        op \in {"add", "sub"} :
       LET res == FrameButton(f, op, d.cus[f])
       IN  d' = [Begin(op) EXCEPT !.cus[f] = res.value, !.err = res.err,
                                  !.inputs = @ + 1]
  /\ UNCHANGED app_vars

\* the radio buttons of RotationFrame
manual_rotation ==
  /\ OnSettings("manual") /\ d.inputs < MaxInputs
  /\ \E r \in {0, 90, 180, 270} :
       d' = [Begin("rotation") EXCEPT !.cus.rotation = r, !.inputs = @ + 1]
  /\ UNCHANGED app_vars

\* <ButtonPress-1> on the zoom canvas
savecoords_d ==
  /\ OnSettings("zoom") /\ d.inputs < MaxInputs
  /\ \E p \in DragPoints :
       d' = [Begin("savecoords_d") EXCEPT !.g.dx = p[1], !.g.dy = p[2],
                                          !.inputs = @ + 1]
  /\ UNCHANGED app_vars

\* <ButtonRelease-1> on the zoom canvas
savecoords_u ==
  /\ OnSettings("zoom") /\ d.inputs < MaxInputs
  /\ \E p \in DragPoints :
       d' = [Begin("savecoords_u") EXCEPT !.g.ux = p[1], !.g.uy = p[2],
                                          !.inputs = @ + 1]
  /\ UNCHANGED app_vars

SettingsNext ==
  \/ splash2settings \/ main2settings \/ settings2main \/ settings2zoom
  \/ settings2splash \/ zoom2settings_n \/ zoom2settings_b \/ zoom2manual
  \/ conf2settings \/ conf2zoom \/ main2manual \/ manual2zoom
  \/ manual2main \/ reset_settings \/ manual_button \/ manual_rotation
  \/ savecoords_d \/ savecoords_u

SpecSettings == SettingsInit /\ [][SettingsNext]_vars

\* ---------------------------------------------------------------------
\* SpecZoom: getzoomcoords on press and release positions inside, on the
\* edge of and outside the canvas.
XPos == {-20, 0, 1, 3, 137, 263, ZoomW, 450}
YPos == {-5, 0, 125, ZoomH, 300}

ZoomInit ==
  /\ AppInit
  /\ \E x1 \in XPos, y1 \in YPos, x2 \in XPos, y2 \in YPos :
       d = [stage |-> "zoom", g |-> [dx |-> x1, dy |-> y1, ux |-> x2, uy |-> y2],
            press |-> <<x1, y1>>, release |-> <<x2, y2>>, coords |-> <<>>]

\* self.getzoomcoords(), as zoom2settings_n and conf2settings call it
zoom_coords ==
  /\ d.stage = "zoom"
  /\ d' = [d EXCEPT !.coords = getzoomcoords(d.g), !.g = Clamped(d.g)]
  /\ UNCHANGED app_vars

ZoomNext == zoom_coords

SpecZoom == ZoomInit /\ [][ZoomNext]_vars

\* =====================================================================
\* Claims
\* =====================================================================

\* run_dif has executed a statement and has not reached its closing
\* root.update() yet
InCycle == pc \notin {"idle", "start", "show"}

\* C1: a detection cycle is handled on the single control thread: at most
\* one cycle is in progress, and while it is in progress the control thread
\* runs no other handler (no navigation, no calibration step, no change of
\* the sensitivity).  The model has one callback thread, so two cycles never
\* overlap; what is checked is that no control-thread handler runs inside a
\* cycle.
C1_CycleOnControlThread == [][InCycle => UNCHANGED ctl_vars]_vars

\* C2: a trigger that arrives while a cycle is running is ignored and not
\* queued: it never adds a cycle to run after the current one.
C2_TriggerIgnoredWhileCapturing == [][pc # "idle" => pending' <= pending]_vars

\* C3: in every reachable state at most one of the alert signal (led_r) and
\* the ok signal (led_g) is on.
C3_AlertOkExclusive == ~(led_r.on /\ led_g.on)

\* C4: when the indicator update of a cycle is done, alert is on iff the
\* cycle kept at least one region and ok is on iff it kept none.
C4_IndicatorsMatchResult ==
  [][pc = "led_2" /\ pc' = "show"
       => /\ led_r'.on <=> obj > 0
          /\ led_g'.on <=> obj = 0]_vars

\* C5: the flash signal is on only while the camera-capture statement of a
\* cycle is executing, and off in every other state.
C5_FlashOnlyWhileCapturing == led_flash.on => pc = "capture"

\* C6: after the operator left the in-progress screen (Back), alert, ok and
\* flash are off and released, the trigger listener is released, and no
\* cycle starts, also when a cycle was in flight at the moment of the exit.
AllReleased ==
  /\ ~led_r.on /\ ~led_g.on /\ ~led_flash.on
  /\ ~led_r.open /\ ~led_g.open /\ ~led_flash.open
  /\ ~switch.open
C6_ExitReleasesAll ==
  /\ [](dif_frame = "main" => AllReleased)
  /\ [][dif_frame = "main" => ~(pc = "idle" /\ pc' # "idle")]_vars
\* the exit happened while a cycle had the flash on and was capturing
C6_Witness ==
  /\ dif_frame = "main" /\ pc = "capture"
  /\ led_flash.id = 1 /\ ~led_flash.open

\* C7: in the in-progress screen the trigger listener and the indicator
\* lines are the ones acquired by the latest entry and are open, a trigger
\* there starts a cycle, and run_dif never calls a device that an exit has
\* released.
NextDeviceOpen ==
  /\ pc \in {"flash_on", "flash_off"} => led_flash.open
  /\ pc = "led_1" => led_r.open
  /\ pc = "led_2" => led_g.open
C7_FreshHandles ==
  /\ dif_frame = "inprogress" =>
       /\ switch.open /\ led_r.open /\ led_g.open /\ led_flash.open
       /\ (pc = "idle" /\ pending = 0 => ENABLED Press)
  /\ NextDeviceOpen

\* C8: the camera is released on every way out of run_dif and of
\* calibrate_start, failed captures included: a thread that is not inside
\* the function does not hold the camera, and with both outside the camera
\* is free, so the next acquisition succeeds.
C8_CameraReleased ==
  /\ pc \in {"idle", "start", "camera"} => camera # "dif"
  /\ cal_pc = "idle" => camera # "cal"
\* a calibration failed at a capture (samples left on disk) and a cycle
\* failed at its capture (flash left on); the camera is free
C8_Witness ==
  /\ pc = "idle" /\ cal_pc = "idle" /\ camera = "free"
  /\ files # {} /\ led_flash.on

\* C9: a region is kept iff its bounding rectangle has width > 35 and
\* height > 35, both strict: 35x50 and 50x35 are rejected, 36x50 and 36x36
\* are kept.
C9_SizeFilterStrict ==
  d.stage = "done" /\ d.conts # {} =>
    /\ (d.rects # {}) <=> (d.w >= 36 /\ d.h >= 36)
    /\ (d.w = 35 /\ d.h = 50) => d.obj = 0
    /\ (d.w = 50 /\ d.h = 35) => d.obj = 0
    /\ (d.w = 36 /\ d.h = 50) => d.rects = {<<BlobAt[1], BlobAt[2], 36, 50>>}
    /\ (d.w = 36 /\ d.h = 36) => d.obj = 1
C9_Witness ==
  d.stage = "done" /\ d.w = 36 /\ d.h = 36 /\ d.obj = 1

\* C10: a pixel is foreground iff its absolute luminance difference is
\* strictly greater than the sensitivity; sensitivity 0 flags every pixel
\* that differs and sensitivity 255 flags none.
C10_ThresholdStrict ==
  d.stage = "thresh" =>
    /\ (d.thresh = 255) <=> (d.img - d.base > d.sens \/ d.base - d.img > d.sens)
    /\ d.thresh \in {0, 255}
    /\ d.sens = 0 => ((d.thresh = 255) <=> (d.img # d.base))
    /\ d.sens = 255 => d.thresh = 0
\* the difference equals the sensitivity and the pixel is background
C10_Witness ==
  /\ d.stage = "thresh" /\ d.sens = 25
  /\ d.base = 0 /\ d.img = 25 /\ d.thresh = 0

\* a rectangle r lies inside the rectangle q
Inside(r, q) ==
  /\ q[1] <= r[1] /\ r[1] + r[3] <= q[1] + q[3]
  /\ q[2] <= r[2] /\ r[2] + r[4] <= q[2] + q[4]

\* C11: the rectangles drawn on the annotated image are exactly the
\* bounding rectangles of the kept regions (width > 35 and height > 35), none
\* is drawn for a rejected candidate, and the defect flag is set iff at least
\* one region is kept.
C11_DrawnAreKept ==
  d.stage \in {"b_one", "b_two"} =>
    /\ d.r1.rects = {r \in d.r1.conts : r[3] > 35 /\ r[4] > 35}
    /\ d.r1.obj = Cardinality(d.r1.rects)
    /\ d.r1.defect <=> (d.r1.obj > 0)
\* one frame with a kept region and a rejected candidate
C11_Witness ==
  /\ d.stage = "b_one"
  /\ d.r1.obj = 1 /\ Cardinality(d.r1.conts) = 2
  /\ d.r1.defect

\* C12: when the frame has the luminance of the baseline everywhere, then
\* for every sensitivity >= 0 no region is kept and the defect flag is off.
C12_ZeroDiff ==
  d.stage \in {"b_one", "b_two"} /\ d.img = d.base =>
    /\ d.r1.obj = 0 /\ d.r1.rects = {} /\ ~d.r1.defect
    /\ \A b \in Bands : d.r1.thresh[b] = 0
\* equal pictures that are not black, run with sensitivity 0
C12_Witness ==
  /\ d.stage = "b_one" /\ d.img = d.base /\ d.s1 = 0
  /\ \E b \in Bands : d.base[b] # 0
  /\ d.r1.obj = 0

\* C13 as stated: with the pictures fixed and s1 <= s2, the number of kept
\* regions at s2 is not greater than the number of kept regions at s1.
C13_KeptCountMonotone ==
  d.stage = "b_two" => d.r2.obj <= d.r1.obj
\* C13 amended: with the pictures fixed and s1 <= s2, every foreground pixel
\* at s2 is a foreground pixel at s1 and every region kept at s2 lies inside
\* a region kept at s1, so a defect at s2 is a defect at s1; the number of
\* kept regions may grow when a region splits.
C13_ForegroundMonotone ==
  d.stage = "b_two" =>
    /\ \A b \in Bands : d.r2.thresh[b] # 0 => d.r1.thresh[b] # 0
    /\ \A r \in d.r2.rects : \E q \in d.r1.rects : Inside(r, q)
    /\ d.r2.defect => d.r1.defect
\* one kept region at s1 has split into two kept regions at s2
C13_Witness ==
  /\ d.stage = "b_two" /\ d.s1 < d.s2
  /\ d.r1.obj = 1 /\ d.r2.obj = 2

\* n / k rounded to the nearest integer, halves up
RoundHalfUp(n, k) == (2 * n + k) \div (2 * k)

\* C14 as stated: the baseline pixel equals round(mean(v1..vN)), whichever
\* of the two usual rules (halves to even, halves up) round follows.
C14_EqualsRoundOfMean ==
  d.stage = "a_done" =>
    d.avg \in {Round(d.sum, d.N), RoundHalfUp(d.sum, d.N)}
\* C14 amended: the baseline pixel is an integer of 0 .. 255 nearest to the
\* mean of the samples, |pixel - mean| <= 1/2; when the mean is exactly
\* half-way between two integers either of them can result.
C14_NearestToMean ==
  d.stage = "a_done" =>
    /\ d.avg \in 0 .. 255
    /\ 2 * (d.N * d.avg - d.sum) <= d.N
    /\ 2 * (d.sum - d.N * d.avg) <= d.N
\* samples of different values whose mean is half-way, rounded down
C14_Witness ==
  /\ d.stage = "a_done" /\ 2 * (d.sum % d.N) = d.N
  /\ d.avg = d.sum \div d.N

\* C15: when a capture of a calibration fails, the calibration ends without
\* a baseline: average.jpg is left as it was, and average.jpg is only ever
\* written from the sum of all N samples of one calibration.
C15_FailedCalibrationKeepsBaseline ==
  /\ [][cal_pc = "capture" /\ cal_pc' = "idle" => average' = average]_vars
  /\ [][average' # average =>
          /\ cal_pc = "average" /\ cal_i = cal_n /\ 1 .. cal_n \subseteq files
          /\ \A s \in Sites : 2 * (cal_n * average'[s] - acc[s]) \in
                                -cal_n .. cal_n]_vars
\* a calibration wrote a baseline, a later one failed after some samples:
\* the baseline is still there
C15_Witness ==
  /\ cal_pc = "idle" /\ cal_buttons
  /\ files # {} /\ ~(1 .. NumTotal \subseteq files)
  /\ average \in Images /\ \E s \in Sites : average[s] # 0

\* C16: when the capture of a cycle fails, the cycle ends there: nothing is
\* displayed, the displayed result and the alert and ok signals stay as the
\* previous cycle left them, and the program goes on: with run_dif idle in
\* the in-progress screen a trigger is taken and started, and Back is served.
C16_FailedCaptureKeepsResult ==
  /\ [][pc = "capture" /\ pc' \notin {"capture", "flash_off"} =>
          pc' = "idle" /\ UNCHANGED <<label_img, led_r, led_g>>]_vars
  /\ [](pc = "idle" /\ dif_frame = "inprogress" =>
          /\ pending = 0 => ENABLED Press
          /\ pending > 0 => ENABLED when_pressed
          /\ CtlReady => ENABLED inprogress2main)
\* a cycle displayed a defect, the capture of the next one failed (flash
\* left on): the picture and the alert are still there
C16_Witness ==
  /\ pc = "idle" /\ pb_dif /\ led_flash.on
  /\ label_img.set /\ label_img.rects # {} /\ led_r.on /\ ~led_g.on

\* C18: a cycle whose baseline has another size than the captured frame ends
\* with the error of absdiff: it displays nothing, leaves alert and ok as
\* they are, and no picture is cropped or resized (no region is computed).
C18_SizeMismatchFails ==
  [][pc = "detect" /\ base_gray = OtherSize /\ pc' # "detect" =>
       /\ pc' = "idle"
       /\ UNCHANGED <<label_img, led_r, led_g, average>>
       /\ rects' = {} /\ obj' = 0]_vars
\* a cycle failed after its capture on a baseline of another size; no
\* calibration was ever started, so the camera was free
C18_Witness ==
  /\ pc = "idle" /\ pb_dif /\ average = OtherSize
  /\ led_flash.open /\ ~led_flash.on
  /\ cal_frame = "main" /\ ~cal_buttons /\ files = {}

\* C19: calibrate_start and run_dif are never both executing (run_dif past
\* its first statement, calibrate_start between its first capture and its
\* return), and the camera is never held by both.
C19_NoCycleDuringCalibration ==
  /\ ~(cal_pc # "idle" /\ pc \notin {"idle", "start"})
  /\ camera \in {"free", "dif", "cal"}

\* C20: baseline all black, sensitivity 10: a frame that is black except a
\* white square of 40 x 40 at (10, 10) gives exactly one kept region, with
\* bounding rectangle (10, 10, 40, 40), and a defect; with a white square of
\* 20 x 20 it gives no kept region and no defect.
C20_EndToEnd ==
  d.stage = "done" /\ d.base = 0 /\ d.img = 255 /\ d.sens = 10 =>
    /\ (d.w = 40 /\ d.h = 40) =>
         d.rects = {<<10, 10, 40, 40>>} /\ d.obj = 1 /\ d.obj > 0
    /\ (d.w = 20 /\ d.h = 20) => d.rects = {} /\ d.obj = 0
C20_Witness ==
  /\ d.stage = "done" /\ d.base = 0 /\ d.img = 255 /\ d.sens = 10
  /\ d.w = 40 /\ d.h = 40 /\ d.rects = {<<10, 10, 40, 40>>}

\* the ends of each setting's range
RangeMin(f) == IF f = "bri" THEN 0 ELSE IF f = "shu" THEN 1000 ELSE -100
RangeMax(f) == IF f = "shu" THEN 3000 ELSE 100

\* C28: starting inside the setting's range, every sequence of add and sub
\* keeps the value inside it: 0..100 for brightness, -100..100 for contrast
\* and sharpness, 1000..3000 for the shutter speed.
C28_ValueStaysInRange ==
  d.stage = "frames" => RangeMin(d.frame) <= d.value /\ d.value <= RangeMax(d.frame)
\* add pressed on a shutter speed just below the maximum
C28_Witness ==
  /\ d.stage = "frames" /\ d.frame = "shu" /\ d.op = "add"
  /\ d.value = 3000 /\ ~d.err

\* C29: in each frame add never lowers the value and sub never raises it;
\* add at the maximum and sub at the minimum leave the value as it is.
C29_AddSubMonotone ==
  [][d.stage = "frames" =>
       /\ d'.op = "add" =>
            /\ d'.value >= d.value
            /\ d.value = RangeMax(d.frame) => d'.value = d.value
       /\ d'.op = "sub" =>
            /\ d'.value <= d.value
            /\ d.value = RangeMin(d.frame) => d'.value = d.value]_vars

\* C30: sub of the shutter speed on a value below SHU_MIN + SHU_DELTA, SHU_MIN
\* itself included, ends without error and sets the value to SHU_MIN.
C30_ShutterSubAtMinimum ==
  [][d.stage = "frames" /\ d.frame = "shu" /\ d'.op = "sub"
       /\ d.value < 1000 + 100
       => ~d'.err /\ d'.value = 1000]_vars

\* the rectangles of the sites whose luminance differs by more than t and
\* whose patch is wider and higher than 35 pixels
Expected(b, img, t) ==
  {SiteRect(x) : x \in {y \in Sites :
      /\ b[y] - img[y] > t \/ img[y] - b[y] > t
      /\ SiteRect(y)[3] > 35 /\ SiteRect(y)[4] > 35}}

\* C21: the kept regions and the defect flag of a cycle are a function of
\* the baseline it read, the frame it captured and the sensitivity alone,
\* whatever earlier cycles displayed or left behind.
C21_ResultIsFunctionOfInputs ==
  [][pc = "detect" /\ pc' = "led_1" =>
       /\ rects' = Expected(base_gray, image, sens)
       /\ obj' = Cardinality(rects')
       /\ (obj' > 0) <=> (rects' # {})]_vars
\* a cycle without a region while the screen still shows the regions of the
\* cycle before
C21_Witness ==
  /\ pc = "led_1" /\ rects = {} /\ obj = 0
  /\ label_img.set /\ label_img.rects # {}

\* C22: a cycle compares a frame only with a baseline picture, and a
\* baseline picture comes into being only at the end of a calibration that
\* took all its samples; with no baseline the cycle ends at the comparison.
C22_CompareNeedsBaseline ==
  /\ [][pc = "detect" /\ pc' = "led_1" => base_gray \in Images]_vars
  /\ [][average' \in Images /\ average' # average =>
          cal_pc = "average" /\ cal_i = cal_n /\ num_current = cal_n]_vars
\* no calibration was ever started and there is no average.jpg: the cycle
\* has ended in an error after its capture
C22_Witness ==
  /\ pc = "idle" /\ pb_dif /\ average = Missing
  /\ led_flash.open /\ ~led_flash.on
  /\ cal_frame = "main" /\ ~cal_buttons /\ files = {}

\* C23: in a cycle the flash goes on before the camera is acquired, the
\* camera is released before the detection runs and stays released through
\* the indicator update and the display, and the flash is never on while
\* run_dif does not hold the camera.
C23_CaptureOrder ==
  /\ pc = "flash_on" => camera # "dif"
  /\ pc \in {"detect", "led_1", "led_2", "show"} => camera # "dif"
  /\ led_flash.on => camera = "dif"

\* C24: a calibration takes its samples one after another, reports progress
\* i after sample i for i = 1 .. N in this order, and averages only after
\* sample N has been taken and reported.
C24_CapturesInOrder ==
  /\ [][cal_pc = "capture" /\ cal_pc' = "update" =>
          /\ cal_i \in 1 .. cal_n /\ cal_n \in NumChoices
          /\ num_current' = cal_i
          /\ cal_i > 1 => num_current = cal_i - 1
          /\ \A s \in Sites : \E g \in Grays : acc'[s] = acc[s] + g]_vars
  /\ [][cal_pc # "average" /\ cal_pc' = "average" =>
          cal_i = cal_n /\ num_current = cal_n]_vars
  /\ [][average' # average =>
          num_current = cal_n /\ 1 .. cal_n \subseteq files]_vars
\* all N samples are taken and the average is written
C24_Witness ==
  /\ cal_pc = "update_avg" /\ num_current = cal_n /\ cal_i = cal_n
  /\ cal_n = 15
  /\ \E s \in Sites : average[s] = 40

\* C25: a change of the sensitivity touches neither the baseline nor the
\* calibration, and a cycle thresholds with the sensitivity set at the time
\* it runs.
C25_SensitivityWithoutRecalibration ==
  /\ [][sens' # sens => UNCHANGED cal_state]_vars
  /\ [][pc = "detect" /\ pc' = "led_1" =>
          \A s \in Sites :
            (SiteRect(s) \in rects') <=>
              (base_gray[s] - image[s] > sens \/ image[s] - base_gray[s] > sens)]_vars
\* the sensitivity was raised to 50 after a calibration: a frame that
\* differs by 40 gives no region
C25_Witness ==
  /\ pc = "led_1" /\ sens = SensTo /\ cal_buttons
  /\ base_gray \in Images /\ image # base_gray /\ rects = {}

\* C26: the baseline file changes only in the averaging step of a
\* calibration: no step of run_dif and no navigation changes it.
C26_BaselineImmutable ==
  [][average' # average =>
       cal_pc = "average" /\ cal_pc' = "update_avg" /\ pc' = pc
       /\ dif_frame' = dif_frame]_vars
\* a cycle has displayed its result on a calibrated baseline that differs
\* from the frame
C26_Witness ==
  /\ pc = "idle" /\ label_img.set /\ label_img.rects # {}
  /\ cal_buttons /\ average \in Images /\ label_img.image # average

\* C27: the switch and the three LEDs are open exactly while the
\* in-progress screen of the analysis is shown; entering it opens them from
\* closed, leaving it closes them.
DevicesOpen == switch.open /\ led_r.open /\ led_g.open /\ led_flash.open
DevicesClosed == ~switch.open /\ ~led_r.open /\ ~led_g.open /\ ~led_flash.open
C27_HeldWhileInProgress ==
  /\ [](/\ dif_frame = "inprogress" => DevicesOpen /\ frame = "difference"
        /\ dif_frame # "inprogress" => DevicesClosed)
  /\ [][dif_frame # "inprogress" /\ dif_frame' = "inprogress" =>
          DevicesClosed /\ DevicesOpen']_vars
\* the screen was left and entered again while a cycle of the first visit
\* was still running
C27_Witness ==
  /\ dif_frame = "inprogress" /\ DevicesOpen
  /\ pc \notin {"idle", "start"} /\ ~pb_dif

\* C33: when a calibration with N samples ends without an error, none of
\* img01.jpg .. img<N>.jpg is left and average.jpg was written once, by the
\* averaging step; a sample file is removed only after this calibration has
\* saved average.jpg.
C33_SamplesDeleted ==
  /\ [][/\ cal_pc = "update_avg" /\ cal_pc' = "idle"
        /\ 1 .. num_total \subseteq files
        => (1 .. cal_n) \cap files' = {}]_vars
  /\ [][~(files \subseteq files') =>
          /\ cal_pc = "update_avg"
          /\ average = [s \in Sites |-> Round(acc[s], cal_n)]]_vars
  /\ [][average' # average => cal_pc = "average"]_vars

\* the values the custom variables cus hold, zoom as a tuple
Current(cus) == WithZoom(cus, literal_eval(cus.zoom))
\* the section of the file that holds the values of cus
Persisted(cus) == WithZoom(cus, json_array(literal_eval(cus.zoom)))

\* C31: whatever is done on the settings screens, the 'default' section of
\* camerasettings.json is the one found at start; after reset_to_default
\* (the button, or Auto Setup) the six custom settings have the values of
\* that section.
C31_DefaultsKept ==
  d.stage = "settings" =>
    /\ d.file.default = d.loaded.default
    /\ d.json_settings.default = init_vars(d.loaded).json_settings.default
    /\ d.op \in {"reset_to_default", "main2settings"} =>
         Current(d.cus) = WithZoom(d.loaded.default, tuple(d.loaded.default.zoom))
\* values were changed and saved, then reset
C31_Witness ==
  /\ d.stage = "settings" /\ d.op = "reset_to_default" /\ d.inputs > 0
  /\ d.file.custom # d.loaded.custom
  /\ d.file.custom # d.file.default

\* C32: for every press and release position getzoomcoords returns
\* (xmin, ymin, xmax, ymax) with 0 <= xmin <= xmax <= 1 and
\* 0 <= ymin <= ymax <= 1 (in thousandths: 0 .. 1000).
C32_ZoomCoordsInUnitSquare ==
  d.stage = "zoom" /\ d.coords # <<>> =>
    /\ 0 <= d.coords[1] /\ d.coords[1] <= d.coords[3] /\ d.coords[3] <= 1000
    /\ 0 <= d.coords[2] /\ d.coords[2] <= d.coords[4] /\ d.coords[4] <= 1000
\* pressed right of and below the canvas, released above it near the left
\* edge: a drag from bottom right to top left
C32_Witness ==
  /\ d.stage = "zoom" /\ d.press = <<450, 300>> /\ d.release = <<1, -5>>
  /\ d.coords = <<3, 0, 1000, 1000>>

\* the handler of this step has called capture_image_zoom
ZoomBgTaken == d.stage = "settings" /\ d'.caps # <<>> /\ d'.caps # d.caps
               /\ d'.caps[1].file = "zoom_bg.gif"

\* C34 as stated: every capture of the settings screens is taken with the
\* settings the custom variables hold, which save_vars has just written;
\* capture_image_zoom captures with the zoom (0, 0, 1, 1); and the zoom in
\* the file is the same before and after capture_image_zoom.
C34_PersistedZoomUntouched ==
  /\ [](d.stage = "settings" =>
         \A i \in DOMAIN d.caps :
           /\ d.caps[i].saved = Persisted(d.caps[i].cus)
           /\ d.caps[i].file = "zoom_test.gif" =>
                d.caps[i].config = Current(d.caps[i].cus)
           /\ d.caps[i].file = "zoom_bg.gif" =>
                d.caps[i].config = WithZoom(Current(d.caps[i].cus), FullZoom))
  /\ [][ZoomBgTaken => d'.file.custom.zoom = d.file.custom.zoom]_vars

\* C34 amended: every capture of the settings screens is taken with the
\* settings the custom variables hold, which save_vars has just written;
\* capture_image_zoom captures with the zoom (0, 0, 1, 1), leaves the custom
\* variables as they are, and the zoom in the file after it is the zoom of
\* the custom variables, not the zoom of the capture.
C34_CapturesUseCurrentSettings ==
  /\ [](d.stage = "settings" =>
         \A i \in DOMAIN d.caps :
           /\ d.caps[i].saved = Persisted(d.caps[i].cus)
           /\ d.caps[i].file = "zoom_test.gif" =>
                d.caps[i].config = Current(d.caps[i].cus)
           /\ d.caps[i].file = "zoom_bg.gif" =>
                d.caps[i].config = WithZoom(Current(d.caps[i].cus), FullZoom))
  /\ [][ZoomBgTaken => /\ d'.cus = d.cus
                       /\ d'.file.custom = Persisted(d.cus)]_vars
\* a value was changed on the manual screen; the picture of the zoom screen
\* was taken with it, with the full zoom and a custom zoom that is not full
C34_Witness ==
  /\ d.stage = "settings" /\ d.op = "manual2zoom" /\ d.inputs > 0
  /\ d.caps # <<>> /\ d.caps[1].file = "zoom_bg.gif"
  /\ d.caps[1].saved # d.loaded.custom
  /\ literal_eval(d.cus.zoom) # FullZoom

====
